---- MODULE Spec2Model ----
(***************************************************************************)
(* A model of pysemseg/train.py: the gradient-accumulating train_step, the *)
(* train_epoch loop with its rolling and full-epoch metric accumulators,   *)
(* and the train orchestrator (setup, resume, epoch loop, checkpointing).  *)
(*                                                                         *)
(* Tensors are sequences with one entry per example.  Floating point       *)
(* scalars are exact rationals [n, d]; d = 0 stands for a non-finite value *)
(* (the result of a division by zero).  A loss tensor carries its value    *)
(* and its derivative with respect to the parameters (the autograd graph), *)
(* so that backward() adds that derivative to the accumulated gradient.    *)
(***************************************************************************)
EXTENDS Integers, Naturals, Sequences, FiniteSets, TLC

(* ------------------------------ bounds --------------------------------- *)
MaxStepBatch == 3
MaxData == 3
MaxBatchSize == 2
MaxEpochs == 2
MaxFreq == 2
MaxLogInterval == 2
MaxCkptEpoch == 1
WMod == 2

(* loader.dataset.ignore_index: the label excluded from loss and metrics *)
IgnoreIndex == 255

(* --------------------------- float arithmetic -------------------------- *)
Abs(a) == IF a < 0 THEN 0 - a ELSE a

RECURSIVE Gcd(_, _)
Gcd(a, b) == IF b = 0 THEN a ELSE Gcd(b, a % b)

NonFinite == [n |-> 0, d |-> 0]

Norm(n, d) ==
    IF d = 0 THEN NonFinite
    ELSE LET g == Gcd(Abs(n), d) IN [n |-> n \div g, d |-> d \div g]

Num(a) == [n |-> a, d |-> 1]

IsFinite(x) == x.d # 0

NumAdd(x, y) ==
    IF x.d = 0 \/ y.d = 0 THEN NonFinite
    ELSE Norm(x.n * y.d + y.n * x.d, x.d * y.d)

(* x / k for a count k >= 0; x / 0 is inf or nan *)
NumDiv(x, k) ==
    IF x.d = 0 \/ k = 0 THEN NonFinite ELSE Norm(x.n, x.d * k)

(* a scalar loss tensor: its value and its derivative w.r.t. the parameters *)
Loss(val, dw) == [val |-> val, dw |-> dw]

ZeroLoss == Loss(Num(0), Num(0))

LossAdd(a, b) == Loss(NumAdd(a.val, b.val), NumAdd(a.dw, b.dw))

LossDiv(a, k) == Loss(NumDiv(a.val, k), NumDiv(a.dw, k))

(* ------------------------- tensors and splitting ----------------------- *)
RECURSIVE SumSeq(_)
SumSeq(s) == IF s = <<>> THEN 0 ELSE Head(s) + SumSeq(Tail(s))

RECURSIVE Cat(_)
Cat(chunks) == IF chunks = <<>> THEN <<>> ELSE Head(chunks) \o Cat(Tail(chunks))

(* mutant: the trailing, smaller chunk is dropped *)
RECURSIVE ChunkSizesNoRemainder(_, _)
ChunkSizesNoRemainder(n, k) ==
    IF n < k THEN <<>> ELSE <<k>> \o ChunkSizesNoRemainder(n - k, k)

RECURSIVE ChunkSizes(_, _)
ChunkSizes(n, k) ==
    IF n = 0 THEN <<>>
    ELSE IF n <= k THEN <<n>>
    ELSE <<k>> \o ChunkSizes(n - k, k)

RECURSIVE SplitBySizes(_, _)
SplitBySizes(t, sizes) ==
    IF sizes = <<>> THEN <<>>
    ELSE <<SubSeq(t, 1, Head(sizes))>>
         \o SplitBySizes(SubSeq(t, Head(sizes) + 1, Len(t)), Tail(sizes))

(* torch.split(t, splits, dim=0): an int is a chunk size (last chunk may be *)
(* smaller), a list gives the section sizes                                *)
SplitPlan(n, splits) ==
    IF splits.kind = "int" THEN ChunkSizes(n, splits.v) ELSE splits.v

TorchSplit(t, splits) == SplitBySizes(t, SplitPlan(Len(t), splits))

(* torch.sum(targets != ignore_index) *)
NumTargets(targets, ignore_index) ==
    Cardinality({k \in 1..Len(targets) : targets[k] # ignore_index})

(* ------------------- model and criterion (per example) ----------------- *)
Forward(w, x) == 2 * x + w

ForwardBatch(w, input_data) == [k \in 1..Len(input_data) |-> Forward(w, input_data[k])]

RawLoss(o, t) == IF t = IgnoreIndex THEN 0 ELSE 1 + ((o + t) % 3)

RawGrad(o, t) == IF t = IgnoreIndex THEN 0 ELSE o - t + 1

(* CrossEntropyLoss(reduction='sum', ignore_index=...) over a (micro-)batch *)
Criterion(output, target) ==
    Loss(Num(SumSeq([k \in 1..Len(output) |-> RawLoss(output[k], target[k])])),
         Num(SumSeq([k \in 1..Len(output) |-> RawGrad(output[k], target[k])])))

(* mutant: the micro-batch loss is never normalised *)
BackwardLossRaw(loss, num_targets, loss_reduction) == loss

(* the loss train_step calls backward on *)
BackwardLoss(loss, num_targets, loss_reduction) ==
    IF loss_reduction = "mean" THEN LossDiv(loss, num_targets) ELSE loss

(* argmax(softmax(output)) per example *)
Predict(o) == o % 2

Predictions(output) == [k \in 1..Len(output) |-> Predict(output[k])]

(* ------------------------------- state --------------------------------- *)
VARIABLES pc, args, loader, ckptDir, net, tr, te, ts, hist, clock

vars == <<pc, args, loader, ckptDir, net, tr, te, ts, hist, clock>>

(* None for args.max_gpu_batch_size (falsy, like 0) and for a checkpoint *)
NoGpuBatch == 0

NoCheckpoint == [epoch |-> -1, w |-> 0, sched |-> 0]

NoReturn == [output |-> <<>>, loss |-> [val |-> [n |-> 0, d |-> 1], dw |-> [n |-> 0, d |-> 1]]]

NoEpoch == [step |-> 0, metrics |-> <<>>, epoch_metrics |-> <<>>, start_time |-> 0]

Examples == {[x |-> 0, t |-> 0], [x |-> 1, t |-> 1], [x |-> 2, t |-> IgnoreIndex]}

RECURSIVE SeqsUpTo(_, _)
SeqsUpTo(S, n) ==
    IF n = 0 THEN {<<>>}
    ELSE LET R == SeqsUpTo(S, n - 1)
         IN R \cup {Append(s, e) : s \in {r \in R : Len(r) = n - 1}, e \in S}

BatchOf(exs) == [data   |-> [k \in 1..Len(exs) |-> exs[k].x],
                 target |-> [k \in 1..Len(exs) |-> exs[k].t]]

RECURSIVE Compositions(_)
Compositions(n) ==
    IF n = 0 THEN {<<>>}
    ELSE UNION {{<<k>> \o c : c \in Compositions(n - k)} : k \in 1..n}

IntSplit(k) == [kind |-> "int", v |-> k]

ListSplit(c) == [kind |-> "list", v |-> c]

NoFrame == [data |-> <<>>, target |-> <<>>,
            inputs |-> <<>>, targets |-> <<>>, splits |-> IntSplit(1),
            loss_reduction |-> "mean", num_targets |-> 0, outputs |-> <<>>,
            step_loss |-> ZeroLoss, loss |-> ZeroLoss, i |-> 0, w_in |-> 0,
            ret |-> NoReturn]

(* the arguments train_step is called with; data and target stay the      *)
(* caller's tensors, inputs and targets are rebound by the splitting       *)
StepFrame(inputs, targets, splits, loss_reduction) ==
    [NoFrame EXCEPT !.data = inputs, !.target = targets,
                    !.inputs = inputs, !.targets = targets, !.splits = splits,
                    !.loss_reduction = loss_reduction]

NoGrad == [val |-> Num(0), from |-> {}]

(* what the previous run of the same model_dir left behind: the epoch it   *)
(* was about to start, its parameters and scheduler state at that point,   *)
(* and whether it had been given a checkpoint                              *)
NoPrev == [epoch |-> -1, w |-> 0, sched |-> 0, given |-> FALSE]

NoHist == [calls |-> 0, updates |-> <<>>, console |-> <<>>, visual |-> <<>>,
           resets |-> <<>>, saved |-> <<>>, epochsRun |-> <<>>, events |-> <<>>,
           boundary |-> 0, prev |-> NoPrev]

Args(cont, ckpt, epochs, freq, log_interval, batch_size, gpu, red) ==
    [continue_training |-> cont, checkpoint |-> ckpt, epochs |-> epochs,
     save_model_frequency |-> freq, log_interval |-> log_interval,
     batch_size |-> batch_size, max_gpu_batch_size |-> gpu,
     loss_reduction |-> red]

(* ------------------------------ train_step ----------------------------- *)
TrainStepBegin ==
    /\ pc = "ts_call"
    /\ ts' = [ts EXCEPT !.num_targets = NumTargets(ts.targets, IgnoreIndex),
                        !.inputs = TorchSplit(ts.inputs, ts.splits),
                        !.targets = TorchSplit(ts.targets, ts.splits),
                        !.outputs = <<>>,
                        !.step_loss = ZeroLoss,
                        !.i = 1,
                        !.w_in = net.w]
    /\ hist' = [hist EXCEPT !.calls = @ + 1]
    /\ pc' = "ts_loop"
    /\ UNCHANGED <<args, loader, ckptDir, net, tr, te, clock>>

(* mutant: step_loss accumulates the normalised micro-batch loss *)
MicroForwardNormalised ==
    /\ pc = "ts_loop"
    /\ ts.i <= Len(ts.inputs)
    /\ LET output == ForwardBatch(net.w, ts.inputs[ts.i])
           loss   == Criterion(output, ts.targets[ts.i])
       IN ts' = [ts EXCEPT !.outputs = Append(@, output),
                           !.loss = loss,
                           !.step_loss = LossAdd(@, BackwardLoss(loss, ts.num_targets,
                                                                 ts.loss_reduction))]
    /\ hist' = [hist EXCEPT !.events = Append(@, <<"forward", hist.calls, ts.i>>)]
    /\ clock' = clock + 1
    /\ pc' = "ts_backward"
    /\ UNCHANGED <<args, loader, ckptDir, net, tr, te>>

(* mutant: the forward passes run back to back, backward is deferred *)
MicroForwardDeferred ==
    /\ pc = "ts_loop"
    /\ ts.i <= Len(ts.inputs)
    /\ LET output == ForwardBatch(net.w, ts.inputs[ts.i])
           loss   == Criterion(output, ts.targets[ts.i])
       IN ts' = [ts EXCEPT !.outputs = Append(@, output),
                           !.loss = loss,
                           !.step_loss = LossAdd(@, loss),
                           !.i = @ + 1]
    /\ hist' = [hist EXCEPT !.events = Append(@, <<"forward", hist.calls, ts.i>>)]
    /\ clock' = clock + 1
    /\ pc' = "ts_loop"
    /\ UNCHANGED <<args, loader, ckptDir, net, tr, te>>

MicroForward ==
    /\ pc = "ts_loop"
    /\ ts.i <= Len(ts.inputs)
    /\ LET output == ForwardBatch(net.w, ts.inputs[ts.i])
           loss   == Criterion(output, ts.targets[ts.i])
       IN ts' = [ts EXCEPT !.outputs = Append(@, output),
                           !.loss = loss,
                           !.step_loss = LossAdd(@, loss)]
    /\ hist' = [hist EXCEPT !.events = Append(@, <<"forward", hist.calls, ts.i>>)]
    /\ clock' = clock + 1
    /\ pc' = "ts_backward"
    /\ UNCHANGED <<args, loader, ckptDir, net, tr, te>>

(* mutant: optimizer.step() inside the micro-batch loop *)
MicroBackwardStepping ==
    /\ pc = "ts_backward"
    /\ LET loss == BackwardLoss(ts.loss, ts.num_targets, ts.loss_reduction)
       IN /\ ts' = [ts EXCEPT !.loss = loss, !.i = @ + 1]
          /\ net' = [net EXCEPT !.grad = [val  |-> NumAdd(@.val, loss.dw),
                                          from |-> @.from \cup {<<hist.calls, ts.i>>}],
                                !.w = (@ + 1) % WMod]
          /\ hist' = [hist EXCEPT
                        !.events = Append(@, <<"backward", hist.calls, ts.i>>),
                        !.updates = Append(@, [call |-> hist.calls, epoch |-> tr.epoch,
                              grad |-> net'.grad, nsplits |-> Len(ts.inputs),
                              w |-> net.w, data |-> ts.data,
                              target |-> ts.target,
                              loss_reduction |-> ts.loss_reduction])]
    /\ pc' = "ts_loop"
    /\ UNCHANGED <<args, loader, ckptDir, tr, te, clock>>

MicroBackward ==
    /\ pc = "ts_backward"
    /\ LET loss == BackwardLoss(ts.loss, ts.num_targets, ts.loss_reduction)
       IN /\ ts' = [ts EXCEPT !.loss = loss, !.i = @ + 1]
          /\ net' = [net EXCEPT !.grad = [val  |-> NumAdd(@.val, loss.dw),
                                          from |-> @.from \cup {<<hist.calls, ts.i>>}]]
    /\ hist' = [hist EXCEPT !.events = Append(@, <<"backward", hist.calls, ts.i>>)]
    /\ pc' = "ts_loop"
    /\ UNCHANGED <<args, loader, ckptDir, tr, te, clock>>

OptimizerStep ==
    /\ pc = "ts_loop"
    /\ ts.i > Len(ts.inputs)
    /\ hist' = [hist EXCEPT !.updates =
                   Append(@, [call |-> hist.calls, epoch |-> tr.epoch,
                              grad |-> net.grad, nsplits |-> Len(ts.inputs),
                              w |-> net.w, data |-> ts.data,
                              target |-> ts.target,
                              loss_reduction |-> ts.loss_reduction])]
    /\ net' = [net EXCEPT !.w = (@ + 1) % WMod]
    /\ pc' = "ts_zero"
    /\ UNCHANGED <<args, loader, ckptDir, tr, te, ts, clock>>

(* mutant: the gradients are not cleared after the update *)
ZeroGradSkipped ==
    /\ pc = "ts_zero"
    /\ pc' = "ts_return"
    /\ UNCHANGED <<args, loader, ckptDir, net, tr, te, ts, hist, clock>>

ZeroGrad ==
    /\ pc = "ts_zero"
    /\ net' = [net EXCEPT !.grad = NoGrad]
    /\ pc' = "ts_return"
    /\ UNCHANGED <<args, loader, ckptDir, tr, te, ts, hist, clock>>

TrainStepReturn ==
    /\ pc = "ts_return"
    /\ ts' = [ts EXCEPT !.ret = [output |-> Cat(ts.outputs), loss |-> ts.step_loss]]
    /\ pc' = "ts_done"
    /\ UNCHANGED <<args, loader, ckptDir, net, tr, te, hist, clock>>

(* ------------------------------ train_epoch ---------------------------- *)
(* args.max_gpu_batch_size or args.batch_size *)
GpuBatchSize(a) ==
    IF a.max_gpu_batch_size = NoGpuBatch THEN a.batch_size
    ELSE a.max_gpu_batch_size

(* mutant: every step is a logging step *)
IsLogStepAlways(step, log_interval) == TRUE

(* step % log_interval == 0 *)
IsLogStep(step, log_interval) == step % log_interval = 0

(* loss = loss / num_targets, as fed to the metric accumulators *)
ReportedLoss(step_loss, target) ==
    NumDiv(step_loss.val, NumTargets(target, IgnoreIndex))

(* SegmentationMetrics.add: the accumulator keeps what it was fed *)
MetricsAdd(m, step, predictions, target, loss) ==
    Append(m, [step |-> step, predictions |-> predictions,
               target |-> target, loss |-> loss])

NextBatch ==
    /\ pc = "te_next"
    /\ te.step < Len(loader)
    /\ LET batch == loader[te.step + 1]
       IN ts' = StepFrame(batch.data, batch.target,
                          IntSplit(GpuBatchSize(args)), args.loss_reduction)
    /\ te' = [te EXCEPT !.start_time = clock]
    /\ pc' = "ts_call"
    /\ UNCHANGED <<args, loader, ckptDir, net, tr, hist, clock>>

Accumulate ==
    /\ pc = "ts_done"
    /\ LET target      == loader[te.step + 1].target
           loss        == ReportedLoss(ts.ret.loss, target)
           predictions == Predictions(ts.ret.output)
       IN te' = [te EXCEPT
                   !.metrics = MetricsAdd(@, te.step, predictions, target, loss),
                   !.epoch_metrics = MetricsAdd(@, te.step, predictions, target, loss)]
    /\ pc' = "te_log"
    /\ UNCHANGED <<args, loader, ckptDir, net, tr, ts, hist, clock>>

(* mutant: the logging boundary clears the full-epoch accumulator too *)
LogIntervalResetsEpoch ==
    /\ pc = "te_log"
    /\ IsLogStep(te.step, args.log_interval)
    /\ hist' = [hist EXCEPT
                  !.console = Append(@, [step |-> te.step, epoch |-> tr.epoch,
                                         metrics |-> te.metrics,
                                         time |-> clock - te.start_time,
                                         since_boundary |-> clock - hist.boundary]),
                  !.boundary = clock,
                  !.resets = Append(@, <<tr.epoch, te.step>>),
                  !.visual = Append(@, <<"images", tr.epoch, te.step>>)]
    /\ te' = [te EXCEPT !.metrics = <<>>, !.epoch_metrics = <<>>, !.step = @ + 1]
    /\ pc' = "te_next"
    /\ UNCHANGED <<args, loader, ckptDir, net, tr, ts, clock>>

(* mutant: the rolling accumulator is not recreated after the summary *)
LogIntervalKeepsRolling ==
    /\ pc = "te_log"
    /\ IsLogStep(te.step, args.log_interval)
    /\ hist' = [hist EXCEPT
                  !.console = Append(@, [step |-> te.step, epoch |-> tr.epoch,
                                         metrics |-> te.metrics,
                                         time |-> clock - te.start_time,
                                         since_boundary |-> clock - hist.boundary]),
                  !.boundary = clock,
                  !.resets = Append(@, <<tr.epoch, te.step>>),
                  !.visual = Append(@, <<"images", tr.epoch, te.step>>)]
    /\ te' = [te EXCEPT !.step = @ + 1]
    /\ pc' = "te_next"
    /\ UNCHANGED <<args, loader, ckptDir, net, tr, ts, clock>>

(* mutant: the end-of-epoch outputs are emitted inside the logging branch *)
LogIntervalEmitsEpoch ==
    /\ pc = "te_log"
    /\ IsLogStep(te.step, args.log_interval)
    /\ hist' = [hist EXCEPT
                  !.console = Append(@, [step |-> te.step, epoch |-> tr.epoch,
                                         metrics |-> te.metrics,
                                         time |-> clock - te.start_time,
                                         since_boundary |-> clock - hist.boundary]),
                  !.boundary = clock,
                  !.resets = Append(@, <<tr.epoch, te.step>>),
                  !.visual = @ \o << <<"images", tr.epoch, te.step>>,
                                     <<"metrics", tr.epoch, te.epoch_metrics>>,
                                     <<"lr", tr.epoch, net.sched>> >>]
    /\ te' = [te EXCEPT !.metrics = <<>>, !.step = @ + 1]
    /\ pc' = "te_next"
    /\ UNCHANGED <<args, loader, ckptDir, net, tr, ts, clock>>

LogInterval ==
    /\ pc = "te_log"
    /\ IsLogStep(te.step, args.log_interval)
    /\ hist' = [hist EXCEPT
                  !.console = Append(@, [step |-> te.step, epoch |-> tr.epoch,
                                         metrics |-> te.metrics,
                                         time |-> clock - te.start_time,
                                         since_boundary |-> clock - hist.boundary]),
                  !.boundary = clock,
                  !.resets = Append(@, <<tr.epoch, te.step>>),
                  !.visual = Append(@, <<"images", tr.epoch, te.step>>)]
    /\ te' = [te EXCEPT !.metrics = <<>>, !.step = @ + 1]
    /\ pc' = "te_next"
    /\ UNCHANGED <<args, loader, ckptDir, net, tr, ts, clock>>

SkipLog ==
    /\ pc = "te_log"
    /\ ~IsLogStep(te.step, args.log_interval)
    /\ te' = [te EXCEPT !.step = @ + 1]
    /\ pc' = "te_next"
    /\ UNCHANGED <<args, loader, ckptDir, net, tr, ts, hist, clock>>

EpochEnd ==
    /\ pc = "te_next"
    /\ te.step >= Len(loader)
    /\ hist' = [hist EXCEPT
                  !.visual = @ \o << <<"metrics", tr.epoch, te.epoch_metrics>>,
                                     <<"lr", tr.epoch, net.sched>> >>]
    /\ pc' = "evaluate"
    /\ UNCHANGED <<args, loader, ckptDir, net, tr, te, ts, clock>>

(* --------------------------------- train ------------------------------- *)
Checkpoint(epoch, w, sched) == [epoch |-> epoch, w |-> w, sched |-> sched]

(* utils.get_latest_checkpoint: the most recent checkpoint of the run dir *)
GetLatestCheckpoint(dir) ==
    IF dir = {} THEN NoCheckpoint
    ELSE CHOOSE c \in dir : \A d \in dir : d.epoch <= c.epoch

(* utils.save: one checkpoint file per epoch number *)
Save(dir, c) == {d \in dir : d.epoch # c.epoch} \cup {c}

(* utils.restore returns the epoch index stored in the checkpoint *)
RestoredEpoch(c) == c.epoch

(* mutant: the restored epoch is run again *)
StartEpochNoIncrement(c) == IF c = NoCheckpoint THEN 0 ELSE RestoredEpoch(c)

(* start_epoch = restore(...) + 1 *)
StartEpoch(c) == IF c = NoCheckpoint THEN 0 ELSE RestoredEpoch(c) + 1

(* mutant: the cadence counts epochs from one *)
IsSaveEpochShifted(epoch, save_model_frequency) ==
    (epoch + 1) % save_model_frequency = 0

(* mutant: the first epoch is never checkpointed *)
IsSaveEpochSkipsFirst(epoch, save_model_frequency) ==
    epoch # 0 /\ epoch % save_model_frequency = 0

(* epoch % args.save_model_frequency == 0 *)
IsSaveEpoch(epoch, save_model_frequency) == epoch % save_model_frequency = 0

(* range(start_epoch, start_epoch + args.epochs) *)
LastEpoch(start_epoch, epochs) == start_epoch + epochs

Event(e) == hist' = [hist EXCEPT !.events = Append(@, e)]

(* mutant: the components are built without seeding first *)
PrepareModelDirSkipsSeed ==
    /\ pc = "train"
    /\ ckptDir' = IF args.continue_training THEN ckptDir ELSE {}
    /\ Event(<<"model_dir">>)
    /\ pc' = "data_loaders"
    /\ UNCHANGED <<args, loader, net, tr, te, ts, clock>>

PrepareModelDir ==
    /\ pc = "train"
    /\ ckptDir' = IF args.continue_training THEN ckptDir ELSE {}
    /\ Event(<<"model_dir">>)
    /\ pc' = "seed"
    /\ UNCHANGED <<args, loader, net, tr, te, ts, clock>>

SetSeed ==
    /\ pc = "seed"
    /\ Event(<<"seed">>)
    /\ pc' = "data_loaders"
    /\ UNCHANGED <<args, loader, ckptDir, net, tr, te, ts, clock>>

CreateDataLoaders ==
    /\ pc = "data_loaders"
    /\ Event(<<"data_loaders">>)
    /\ pc' = "visual_logger"
    /\ UNCHANGED <<args, loader, ckptDir, net, tr, te, ts, clock>>

CreateVisualLogger ==
    /\ pc = "visual_logger"
    /\ Event(<<"visual_logger">>)
    /\ pc' = "model"
    /\ UNCHANGED <<args, loader, ckptDir, net, tr, te, ts, clock>>

CreateModel ==
    /\ pc = "model"
    /\ Event(<<"model">>)
    /\ pc' = "optimizer"
    /\ UNCHANGED <<args, loader, ckptDir, net, tr, te, ts, clock>>

CreateOptimizer ==
    /\ pc = "optimizer"
    /\ Event(<<"optimizer">>)
    /\ tr' = [tr EXCEPT !.start_epoch = 0]
    /\ pc' = "latest_checkpoint"
    /\ UNCHANGED <<args, loader, ckptDir, net, te, ts, clock>>

ResolveCheckpoint ==
    /\ pc = "latest_checkpoint"
    /\ args.continue_training => GetLatestCheckpoint(ckptDir) # NoCheckpoint
    /\ args' = IF args.continue_training
               THEN [args EXCEPT !.checkpoint = GetLatestCheckpoint(ckptDir)]
               ELSE args
    /\ pc' = "lr_scheduler"
    /\ UNCHANGED <<loader, ckptDir, net, tr, te, ts, hist, clock>>

(* assert args.checkpoint is not None *)
AssertionFails ==
    /\ pc = "latest_checkpoint"
    /\ args.continue_training
    /\ GetLatestCheckpoint(ckptDir) = NoCheckpoint
    /\ Event(<<"failed">>)
    /\ pc' = "failed"
    /\ UNCHANGED <<args, loader, ckptDir, net, tr, te, ts, clock>>

CreateScheduler ==
    /\ pc = "lr_scheduler"
    /\ Event(<<"lr_scheduler">>)
    /\ pc' = "restore"
    /\ UNCHANGED <<args, loader, ckptDir, net, tr, te, ts, clock>>

Restore ==
    /\ pc = "restore"
    /\ net' = IF args.checkpoint # NoCheckpoint
              THEN [net EXCEPT !.w = args.checkpoint.w,
                               !.sched = args.checkpoint.sched]
              ELSE net
    /\ tr' = [tr EXCEPT !.start_epoch = StartEpoch(args.checkpoint),
                        !.epoch = StartEpoch(args.checkpoint)]
    /\ pc' = "loop"
    /\ UNCHANGED <<args, loader, ckptDir, te, ts, hist, clock>>

EpochStart ==
    /\ pc = "loop"
    /\ tr.epoch < LastEpoch(tr.start_epoch, args.epochs)
    /\ te' = NoEpoch
    /\ hist' = [hist EXCEPT !.epochsRun = Append(@, tr.epoch),
                            !.events = Append(@, <<"train_epoch", tr.epoch>>),
                            !.boundary = clock]
    /\ pc' = "te_next"
    /\ UNCHANGED <<args, loader, ckptDir, net, tr, ts, clock>>

TrainDone ==
    /\ pc = "loop"
    /\ tr.epoch >= LastEpoch(tr.start_epoch, args.epochs)
    /\ pc' = "done"
    /\ UNCHANGED <<args, loader, ckptDir, net, tr, te, ts, hist, clock>>

(* mutant: the scheduler is stepped right after evaluation *)
EvaluateSkipsSave ==
    /\ pc = "evaluate"
    /\ Event(<<"evaluate", tr.epoch>>)
    /\ pc' = "scheduler_step"
    /\ UNCHANGED <<args, loader, ckptDir, net, tr, te, ts, clock>>

Evaluate ==
    /\ pc = "evaluate"
    /\ Event(<<"evaluate", tr.epoch>>)
    /\ pc' = "save"
    /\ UNCHANGED <<args, loader, ckptDir, net, tr, te, ts, clock>>

SaveCheckpoint ==
    /\ pc = "save"
    /\ IsSaveEpoch(tr.epoch, args.save_model_frequency)
    /\ ckptDir' = Save(ckptDir, Checkpoint(tr.epoch, net.w, net.sched))
    /\ hist' = [hist EXCEPT !.saved = Append(@, tr.epoch),
                            !.events = Append(@, <<"save", tr.epoch>>)]
    /\ pc' = "scheduler_step"
    /\ UNCHANGED <<args, loader, net, tr, te, ts, clock>>

SkipSave ==
    /\ pc = "save"
    /\ ~IsSaveEpoch(tr.epoch, args.save_model_frequency)
    /\ pc' = "scheduler_step"
    /\ UNCHANGED <<args, loader, ckptDir, net, tr, te, ts, hist, clock>>

SchedulerStep ==
    /\ pc = "scheduler_step"
    /\ net' = [net EXCEPT !.sched = @ + 1]
    /\ tr' = [tr EXCEPT !.epoch = @ + 1]
    /\ Event(<<"scheduler_step", tr.epoch>>)
    /\ pc' = "loop"
    /\ UNCHANGED <<args, loader, ckptDir, te, ts, clock>>

(* ------------------------------ initial states ------------------------- *)
(* DataLoader(dataset, batch_size): full batches, then the remainder *)
LoaderOf(exs, batch_size) ==
    LET chunks == SplitBySizes(exs, ChunkSizes(Len(exs), batch_size))
    IN [k \in 1..Len(chunks) |-> BatchOf(chunks[k])]

(* a checkpoint as a fresh run writes it at the end of epoch e *)
SavedAt(e) == Checkpoint(e, e % WMod, e)

Reductions == {"mean", "sum"}

(* logical batch of 16 with 10 valid and 6 ignored targets, split 4,4,4,4 *)
ScenarioData ==
    [k \in 1..16 |-> IF k % 8 \in {3, 5, 0} THEN [x |-> 2, t |-> IgnoreIndex]
                     ELSE IF k % 2 = 0 THEN [x |-> 1, t |-> 1]
                     ELSE [x |-> 0, t |-> 0]]

RunData == <<[x |-> 1, t |-> 1], [x |-> 2, t |-> IgnoreIndex], [x |-> 0, t |-> 0]>>

(* the command-line arguments and the data of a run: every small dataset   *)
(* with every batching in a fresh run; every resume situation,             *)
(* epoch count and cadence over one dataset of two logical batches; and    *)
(* the 16-example batch split into four micro-batches.  A micro-batch size *)
(* at or above the batch size gives one chunk, as an absent one does.      *)
InitArgs ==
    \/ \E exs \in SeqsUpTo(Examples, MaxData), bs \in 1..MaxBatchSize :
       \E gpu \in {NoGpuBatch} \cup 1..(bs - 1), red \in Reductions,
          li \in 1..MaxLogInterval, ep \in {1, MaxEpochs} :
          /\ args = Args(FALSE, NoCheckpoint, ep, 1, li, bs, gpu, red)
          /\ loader = LoaderOf(exs, bs)
          /\ ckptDir = {}
    \/ \E cont \in BOOLEAN, ckpt \in {NoCheckpoint} \cup {SavedAt(e) : e \in 0..MaxCkptEpoch},
          dir \in SUBSET {SavedAt(e) : e \in 0..MaxCkptEpoch},
          ep \in 0..MaxEpochs, freq \in 1..MaxFreq, li \in 1..MaxLogInterval,
          red \in Reductions :
          /\ args = Args(cont, ckpt, ep, freq, li, 2, 1, red)
          /\ loader = LoaderOf(RunData, 2)
          /\ ckptDir = dir
    \/ \E red \in Reductions :
          /\ args = Args(FALSE, NoCheckpoint, 1, 1, 1, 16, 4, red)
          /\ loader = LoaderOf(ScenarioData, 16)
          /\ ckptDir = {}

Init ==
    /\ pc = "train"
    /\ InitArgs
    /\ net = [w |-> 0, grad |-> NoGrad, sched |-> 0]
    /\ tr = [start_epoch |-> 0, epoch |-> 0]
    /\ te = NoEpoch
    /\ ts = NoFrame
    /\ hist = NoHist
    /\ clock = 0

NextStep ==
    \/ TrainStepBegin
    \/ MicroForward
    \/ MicroBackward
    \/ OptimizerStep
    \/ ZeroGrad
    \/ TrainStepReturn

(* train_step called on its own with any batch and any split plan *)
InitStep ==
    /\ pc = "ts_call"
    /\ \E exs \in SeqsUpTo(Examples, MaxStepBatch) \ {<<>>} :
       \E splits \in {IntSplit(k) : k \in 1..MaxStepBatch}
                     \cup {ListSplit(c) : c \in Compositions(Len(exs))} :
       \E red \in {"mean", "sum"} :
          ts = StepFrame(BatchOf(exs).data, BatchOf(exs).target, splits, red)
    /\ net \in {[w |-> w, grad |-> NoGrad, sched |-> 0] : w \in 0..(WMod - 1)}
    /\ args = Args(FALSE, NoCheckpoint, 0, 1, 1, 1, NoGpuBatch, "mean")
    /\ loader = <<>>
    /\ ckptDir = {}
    /\ tr = [start_epoch |-> 0, epoch |-> 0]
    /\ te = NoEpoch
    /\ hist = NoHist
    /\ clock = 0

StepSpec == InitStep /\ [][NextStep]_vars

Next ==
    \/ PrepareModelDir
    \/ SetSeed
    \/ CreateDataLoaders
    \/ CreateVisualLogger
    \/ CreateModel
    \/ CreateOptimizer
    \/ ResolveCheckpoint
    \/ AssertionFails
    \/ CreateScheduler
    \/ Restore
    \/ EpochStart
    \/ TrainDone
    \/ NextBatch
    \/ TrainStepBegin
    \/ MicroForward
    \/ MicroBackward
    \/ OptimizerStep
    \/ ZeroGrad
    \/ TrainStepReturn
    \/ Accumulate
    \/ LogInterval
    \/ SkipLog
    \/ EpochEnd
    \/ Evaluate
    \/ SaveCheckpoint
    \/ SkipSave
    \/ SchedulerStep

Spec == Init /\ [][Next]_vars

(* ------------------------- a run and its continuation ------------------ *)
(* the process ends between two epochs (finished or interrupted) and train *)
(* is started again on the same model_dir with --continue-training         *)
ContinueRun ==
    /\ pc = "loop"
    /\ ~args.continue_training
    /\ args' = [args EXCEPT !.continue_training = TRUE]
    /\ net' = [w |-> 0, grad |-> NoGrad, sched |-> 0]
    /\ tr' = [start_epoch |-> 0, epoch |-> 0]
    /\ te' = NoEpoch
    /\ ts' = NoFrame
    /\ hist' = [NoHist EXCEPT !.prev = [epoch |-> tr.epoch, w |-> net.w,
                                        sched |-> net.sched,
                                        given |-> args.checkpoint # NoCheckpoint]]
    /\ clock' = 0
    /\ pc' = "train"
    /\ UNCHANGED <<loader, ckptDir>>

InitResume ==
    /\ pc = "train"
    /\ \E ckpt \in {NoCheckpoint} \cup {SavedAt(e) : e \in 0..MaxCkptEpoch},
          ep \in 0..MaxEpochs, freq \in 1..MaxFreq, li \in 1..MaxLogInterval,
          red \in Reductions :
          args = Args(FALSE, ckpt, ep, freq, li, 2, 1, red)
    /\ loader = LoaderOf(RunData, 2)
    /\ ckptDir = {}
    /\ net = [w |-> 0, grad |-> NoGrad, sched |-> 0]
    /\ tr = [start_epoch |-> 0, epoch |-> 0]
    /\ te = NoEpoch
    /\ ts = NoFrame
    /\ hist = NoHist
    /\ clock = 0

NextResume ==
    \/ Next
    \/ ContinueRun

ResumeSpec == InitResume /\ [][NextResume]_vars

(* ------------------------- reference quantities ------------------------ *)
ValidCount(target) ==
    Cardinality({k \in 1..Len(target) : target[k] # IgnoreIndex})

(* one undivided forward pass over the whole logical batch *)
WholeOutput(w, data) == [k \in 1..Len(data) |-> Forward(w, data[k])]

WholeRawLoss(w, data, target) ==
    SumSeq([k \in 1..Len(data) |-> RawLoss(WholeOutput(w, data)[k], target[k])])

WholeRawGrad(w, data, target) ==
    SumSeq([k \in 1..Len(data) |-> RawGrad(WholeOutput(w, data)[k], target[k])])

(* gradient of the non-split loss: raw sum, divided by valid_count if mean *)
ReferenceGrad(w, data, target, loss_reduction) ==
    IF loss_reduction = "mean"
    THEN NumDiv(Num(WholeRawGrad(w, data, target)), ValidCount(target))
    ELSE Num(WholeRawGrad(w, data, target))

InTrainStepLoop == pc \in {"ts_loop", "ts_backward"}

InTrainEpoch ==
    pc \in {"te_next", "ts_call", "ts_loop", "ts_backward", "ts_zero",
            "ts_return", "ts_done", "te_log"}

UpdatesOfEpoch(e) == {k \in DOMAIN hist.updates : hist.updates[k].epoch = e}

(* ------------------------------- claims -------------------------------- *)
(* C1: every invocation of train_step performs exactly one optimizer       *)
(* update whatever the number of micro-batches, so when train_epoch        *)
(* returns the number of updates of that epoch equals the number of        *)
(* logical batches the loader yielded.                                     *)
C1_OneUpdatePerStep ==
    /\ Len(hist.updates) = IF InTrainStepLoop THEN hist.calls - 1 ELSE hist.calls
    /\ \A k \in DOMAIN hist.updates : hist.updates[k].call = k
    /\ pc = "evaluate" => Cardinality(UpdatesOfEpoch(tr.epoch)) = Len(loader)

C1_Witness ==
    /\ pc = "evaluate"
    /\ Len(loader) = 2
    /\ \E k \in UpdatesOfEpoch(tr.epoch) : hist.updates[k].nsplits = 1
    /\ \E k \in UpdatesOfEpoch(tr.epoch) : hist.updates[k].nsplits = 2

(* C2: the optimizer update fires only after backward ran for every        *)
(* micro-batch of the logical batch, the gradients are cleared right after *)
(* it, and so each update observes the accumulation over exactly the       *)
(* splits of its own logical batch.                                        *)
C2_UpdateSeesOwnBatch ==
    /\ \A k \in DOMAIN hist.updates :
          LET u == hist.updates[k]
          IN /\ u.grad.from = {<<u.call, i>> : i \in 1..u.nsplits}
             /\ u.grad.val = ReferenceGrad(u.w, u.data, u.target, u.loss_reduction)
    /\ pc \in {"ts_return", "ts_done", "ts_call"} => net.grad = NoGrad
    /\ InTrainStepLoop => \A c \in net.grad.from : c[1] = hist.calls

C2_Witness ==
    /\ Len(hist.updates) = 2
    /\ hist.updates[1].grad.val # Num(0)
    /\ hist.updates[2].nsplits = 2
    /\ hist.updates[2].grad.val # Num(0)

(* C3: for any split plan summing to the batch size (a list of sizes or an *)
(* integer chunk size with a smaller last chunk) the output train_step     *)
(* returns is the concatenation of the per-split outputs in example order  *)
(* and equals the output of one undivided forward pass.                    *)
C3_OutputIsUndividedForward ==
    pc = "ts_done" =>
        /\ Len(ts.ret.output) = Len(ts.data)
        /\ ts.ret.output = WholeOutput(ts.w_in, ts.data)
        /\ ts.ret.output = Cat(ts.outputs)
        /\ Len(ts.outputs) = Len(SplitPlan(Len(ts.data), ts.splits))
        /\ \A k \in DOMAIN ts.outputs :
              Len(ts.outputs[k]) = SplitPlan(Len(ts.data), ts.splits)[k]

C3_Witness ==
    /\ pc = "ts_done"
    /\ ts.splits = IntSplit(2)
    /\ Len(ts.data) = 3
    /\ Len(ts.outputs) = 2
    /\ ts.ret.output[1] # ts.ret.output[2]
    /\ ts.ret.output[2] # ts.ret.output[3]

(* C4: under mean reduction valid_count is computed once over the whole    *)
(* logical batch and divides every micro-batch loss, so the gradient       *)
(* accumulated when the optimizer updates equals the gradient of           *)
(* (sum of all splits' raw losses) / valid_count, for every split plan.    *)
C4_MeanGradientMatchesReference ==
    /\ pc # "ts_call" /\ ts.loss_reduction = "mean" =>
          ts.num_targets = ValidCount(ts.target)
    /\ pc = "ts_loop" /\ ts.i > Len(ts.inputs) /\ ts.loss_reduction = "mean" =>
          net.grad.val = NumDiv(Num(WholeRawGrad(ts.w_in, ts.data, ts.target)),
                                ValidCount(ts.target))
    /\ pc = "ts_loop" /\ ts.i > 1 /\ ts.loss_reduction = "mean" =>
          ts.loss.val =
             NumDiv(Num(WholeRawLoss(ts.w_in, ts.inputs[ts.i - 1], ts.targets[ts.i - 1])),
                    ValidCount(ts.target))
    /\ \A k \in DOMAIN hist.updates :
          LET u == hist.updates[k]
          IN u.loss_reduction = "mean" =>
                u.grad.val = NumDiv(Num(WholeRawGrad(u.w, u.data, u.target)),
                                    ValidCount(u.target))

C4_Witness ==
    /\ Len(hist.updates) = 1
    /\ ts.loss_reduction = "mean"
    /\ Len(ts.inputs) = 2
    /\ ValidCount(ts.targets[1]) = 1
    /\ ValidCount(ts.targets[2]) = 1
    /\ hist.updates[1].grad.val.d = 2

(* C5: a logical batch without any valid target under mean reduction is    *)
(* detected: no division by zero happens and no non-finite loss reaches    *)
(* backward, the optimizer update or the metric accumulators.              *)
C5_DegenerateBatchGuarded ==
    args.loss_reduction = "mean" =>
        /\ pc = "ts_loop" /\ ts.i > 1 => IsFinite(ts.loss.val)
        /\ \A k \in DOMAIN hist.updates : IsFinite(hist.updates[k].grad.val)
        /\ \A k \in DOMAIN te.metrics : IsFinite(te.metrics[k].loss)
        /\ \A k \in DOMAIN te.epoch_metrics : IsFinite(te.epoch_metrics[k].loss)

(* C6: the step_loss train_step returns is the raw sum of the micro-batch  *)
(* losses in both reduction modes, and the loss train_epoch feeds to both  *)
(* metric accumulators is that sum divided by the valid_count of the whole *)
(* logical batch.                                                          *)
C6_ReportedLossIsRawSumOverValidCount ==
    /\ pc \in {"ts_done", "te_log"} =>
          ts.ret.loss.val = Num(WholeRawLoss(ts.w_in, ts.data, ts.target))
    /\ pc = "te_log" =>
          /\ te.metrics[Len(te.metrics)].loss =
                NumDiv(Num(WholeRawLoss(ts.w_in, ts.data, ts.target)),
                       ValidCount(ts.target))
          /\ te.epoch_metrics[Len(te.epoch_metrics)].loss =
                NumDiv(Num(WholeRawLoss(ts.w_in, ts.data, ts.target)),
                       ValidCount(ts.target))

C6_Witness ==
    /\ pc = "te_log"
    /\ args.loss_reduction = "mean"
    /\ Len(ts.data) = 16
    /\ SplitPlan(Len(ts.data), ts.splits) = <<4, 4, 4, 4>>
    /\ Len(ts.outputs) = 4
    /\ ValidCount(ts.target) = 10
    /\ te.metrics[1].loss =
          NumDiv(Num(SumSeq([k \in 1..4 |->
                     WholeRawLoss(ts.w_in, ts.inputs[k], ts.targets[k])])), 10)
    /\ te.metrics[1].loss.n > 0

ResetSteps(e) ==
    {hist.resets[k][2] : k \in {j \in DOMAIN hist.resets : hist.resets[j][1] = e}}

(* C7: within one train_epoch the rolling accumulator is reset exactly     *)
(* every log_interval steps: each reset coincides with one console         *)
(* summary, consecutive resets are log_interval steps apart, and the       *)
(* accumulator is reset at no other step.                                  *)
C7_RollingResetEveryInterval ==
    /\ Len(hist.resets) = Len(hist.console)
    /\ \A k \in DOMAIN hist.resets :
          hist.resets[k] = <<hist.console[k].epoch, hist.console[k].step>>
    /\ \A k \in 1..(Len(hist.resets) - 1) :
          hist.resets[k + 1][1] = hist.resets[k][1] =>
             hist.resets[k + 1][2] - hist.resets[k][2] = args.log_interval
    /\ InTrainEpoch =>
          {te.metrics[k].step : k \in DOMAIN te.metrics} =
             {s \in 0..(Len(te.epoch_metrics) - 1) :
                 \A r \in ResetSteps(tr.epoch) : r < s}

C7_Witness ==
    /\ args.log_interval = 2
    /\ pc = "evaluate"
    /\ Len(loader) = 3
    /\ ResetSteps(tr.epoch) = {0, 2}

(* C8: the full-epoch accumulator is never reset during the epoch and is   *)
(* fed the same triple as the rolling accumulator at every step, so the    *)
(* value emitted at epoch end aggregates every step of the epoch exactly   *)
(* once, whatever log_interval is.                                         *)
C8_EpochAccumulatorAggregatesEveryStep ==
    /\ InTrainEpoch \/ pc = "evaluate" =>
          /\ \A k \in DOMAIN te.epoch_metrics : te.epoch_metrics[k].step = k - 1
          /\ Len(te.epoch_metrics) = te.step + (IF pc = "te_log" THEN 1 ELSE 0)
          /\ Len(te.metrics) <= Len(te.epoch_metrics)
          /\ te.metrics = SubSeq(te.epoch_metrics,
                                 Len(te.epoch_metrics) - Len(te.metrics) + 1,
                                 Len(te.epoch_metrics))
    /\ \A k \in DOMAIN hist.visual :
          hist.visual[k][1] = "metrics" =>
             /\ Len(hist.visual[k][3]) = Len(loader)
             /\ \A j \in DOMAIN hist.visual[k][3] : hist.visual[k][3][j].step = j - 1
    /\ pc = "evaluate" =>
          \E k \in DOMAIN hist.visual :
             hist.visual[k] = <<"metrics", tr.epoch, te.epoch_metrics>>

C8_Witness ==
    /\ pc = "evaluate"
    /\ args.log_interval = 2
    /\ Len(te.epoch_metrics) = 3
    /\ Cardinality(ResetSteps(tr.epoch)) = 2
    /\ hist.visual[Len(hist.visual) - 1] = <<"metrics", tr.epoch, te.epoch_metrics>>

Range(q) == {q[k] : k \in DOMAIN q}

EpochRange == tr.start_epoch..(tr.start_epoch + args.epochs - 1)

(* C9: train writes a checkpoint for epoch e if and only if e is in the    *)
(* run's epoch range and a multiple of save_model_frequency, and that      *)
(* checkpoint is keyed by e.                                               *)
C9_CheckpointOnlyAtCadence ==
    /\ \A k \in DOMAIN hist.saved :
          /\ hist.saved[k] % args.save_model_frequency = 0
          /\ hist.saved[k] \in EpochRange
          /\ \E c \in ckptDir : c.epoch = hist.saved[k]
          /\ \A j \in 1..(k - 1) : hist.saved[j] < hist.saved[k]
    /\ pc = "scheduler_step" =>
          (tr.epoch \in Range(hist.saved) <=> tr.epoch % args.save_model_frequency = 0)
    /\ pc = "done" =>
          Range(hist.saved) = {e \in EpochRange : e % args.save_model_frequency = 0}

C9_Witness ==
    /\ pc = "done"
    /\ args.save_model_frequency = 2
    /\ hist.epochsRun = <<2, 3>>
    /\ hist.saved = <<2>>

FirstEpoch ==
    IF args.checkpoint = NoCheckpoint THEN 0 ELSE args.checkpoint.epoch + 1

(* C10: resumed from a checkpoint saved at epoch e, train runs exactly the *)
(* epochs e+1 .. e+epochs in increasing order; without a checkpoint it     *)
(* runs 0 .. epochs-1; no epoch is run twice or skipped.                   *)
C10_EpochsRunFromRestoredEpoch ==
    /\ \A k \in DOMAIN hist.epochsRun : hist.epochsRun[k] = FirstEpoch + k - 1
    /\ Len(hist.epochsRun) <= args.epochs
    /\ pc = "done" => Len(hist.epochsRun) = args.epochs

C10_Witness ==
    /\ pc = "done"
    /\ args.continue_training
    /\ args.checkpoint.epoch = 1
    /\ hist.epochsRun = <<2, 3>>

(* C11: continuation requested with no checkpoint in the run directory     *)
(* makes train fail before data loaders, loggers, model, optimizer or      *)
(* scheduler are constructed and before any step, evaluation or save.      *)
C11_FailsBeforeAnySetup ==
    pc = "failed" =>
        \A k \in DOMAIN hist.events :
            hist.events[k][1] \notin {"data_loaders", "visual_logger", "model",
                                      "optimizer", "lr_scheduler", "train_epoch",
                                      "forward", "evaluate", "save"}

IsPhaseEvent(e) == e[1] \in {"train_epoch", "evaluate", "save", "scheduler_step"}

PhaseEvents == SelectSeq(hist.events, IsPhaseEvent)

PhaseAfter(a) ==
    IF a[1] = "train_epoch" THEN <<"evaluate", a[2]>>
    ELSE IF a[1] = "evaluate"
         THEN IF a[2] % args.save_model_frequency = 0
              THEN <<"save", a[2]>> ELSE <<"scheduler_step", a[2]>>
    ELSE IF a[1] = "save" THEN <<"scheduler_step", a[2]>>
    ELSE <<"train_epoch", a[2] + 1>>

(* C12: every epoch of a run performs train_epoch, evaluate, the           *)
(* conditional checkpoint save and one scheduler step, in this order and   *)
(* once each, and the next epoch starts only after the scheduler step.     *)
C12_EpochPhasesInOrder ==
    /\ PhaseEvents # <<>> => PhaseEvents[1] = <<"train_epoch", tr.start_epoch>>
    /\ \A k \in 1..(Len(PhaseEvents) - 1) :
          PhaseEvents[k + 1] = PhaseAfter(PhaseEvents[k])
    /\ pc = "done" /\ args.epochs > 0 =>
          PhaseEvents[Len(PhaseEvents)] =
             <<"scheduler_step", tr.start_epoch + args.epochs - 1>>
    /\ pc = "done" /\ args.epochs = 0 => PhaseEvents = <<>>

C12_Witness ==
    /\ pc = "done"
    /\ args.save_model_frequency = 2
    /\ PhaseEvents = << <<"train_epoch", 0>>, <<"evaluate", 0>>, <<"save", 0>>,
                        <<"scheduler_step", 0>>, <<"train_epoch", 1>>,
                        <<"evaluate", 1>>, <<"scheduler_step", 1>> >>

(* C13: _set_seed runs before the shuffling data loader, the model, the    *)
(* optimizer and the scheduler are constructed, on the fresh and on the    *)
(* continuation path.                                                      *)
C13_SeedBeforeConstruction ==
    \A k \in DOMAIN hist.events :
        hist.events[k][1] \in {"data_loaders", "model", "optimizer", "lr_scheduler"} =>
            \E j \in 1..(k - 1) : hist.events[j] = <<"seed">>

C13_Witness ==
    /\ pc = "restore"
    /\ args.continue_training
    /\ \E k \in DOMAIN hist.events : hist.events[k] = <<"data_loaders">>
    /\ \E k \in DOMAIN hist.events : hist.events[k] = <<"model">>
    /\ \E k \in DOMAIN hist.events : hist.events[k] = <<"optimizer">>
    /\ hist.events[Len(hist.events)] = <<"lr_scheduler">>

IsEpochOutput(v) == v[1] \in {"metrics", "lr"}

EpochOutputs == SelectSeq(hist.visual, IsEpochOutput)

EpochsReturned ==
    IF InTrainEpoch THEN Len(hist.epochsRun) - 1 ELSE Len(hist.epochsRun)

(* C14: each train_epoch emits the full-epoch metrics and the learning     *)
(* rate to the visual logger exactly once, and only after every logical    *)
(* batch of the loader has been stepped, also when the loader is empty or  *)
(* its length is not a multiple of log_interval.                           *)
C14_EpochOutputsOnceAtEnd ==
    /\ Len(EpochOutputs) = 2 * EpochsReturned
    /\ \A k \in 1..EpochsReturned :
          /\ EpochOutputs[2 * k - 1][1] = "metrics"
          /\ EpochOutputs[2 * k - 1][2] = hist.epochsRun[k]
          /\ Len(EpochOutputs[2 * k - 1][3]) = Len(loader)
          /\ EpochOutputs[2 * k][1] = "lr"
          /\ EpochOutputs[2 * k][2] = hist.epochsRun[k]
    /\ \A j, k \in DOMAIN hist.visual :
          j < k /\ hist.visual[j][1] = "metrics" /\ hist.visual[k][1] = "images" =>
             hist.visual[j][2] < hist.visual[k][2]

C14_Witness ==
    /\ pc = "evaluate"
    /\ args.log_interval = 2
    /\ Len(loader) = 3
    /\ Len(EpochOutputs) = 2
    /\ Len(EpochOutputs[1][3]) = 3

C14_EmptyLoaderReached ==
    /\ pc = "evaluate"
    /\ Len(loader) = 0
    /\ Len(EpochOutputs) = 2

(* C16 as claimed: every console summary reports the rolling accumulator   *)
(* after it aggregated exactly log_interval steps.                         *)
C16_EverySummaryCoversInterval ==
    \A k \in DOMAIN hist.console :
        Len(hist.console[k].metrics) = args.log_interval

(* C16 amended: the first console summary of an epoch, at step 0, reports  *)
(* exactly one step; every later summary reports exactly the log_interval  *)
(* steps since the previous reset.                                         *)
C16_SummaryCoversIntervalAfterFirst ==
    \A k \in DOMAIN hist.console :
        LET c == hist.console[k]
            n == IF c.step = 0 THEN 1 ELSE args.log_interval
        IN /\ Len(c.metrics) = n
           /\ \A j \in 1..n : c.metrics[j].step = c.step - n + j

C16_Witness ==
    /\ args.log_interval = 2
    /\ Len(hist.console) = 2
    /\ hist.console[1].step = 0
    /\ Len(hist.console[1].metrics) = 1
    /\ hist.console[2].step = 2
    /\ Len(hist.console[2].metrics) = 2

IsPassEvent(e) == e[1] \in {"forward", "backward"}

PassEvents == SelectSeq(hist.events, IsPassEvent)

ForwardCount == Cardinality({k \in DOMAIN PassEvents : PassEvents[k][1] = "forward"})

BackwardCount == Cardinality({k \in DOMAIN PassEvents : PassEvents[k][1] = "backward"})

(* C17: inside train_step the micro-batches are processed one after        *)
(* another in split order and backward for micro-batch i runs before the   *)
(* forward pass of micro-batch i+1; never have two micro-batches completed *)
(* forward without the earlier one's backward having run.                  *)
C17_BackwardBeforeNextForward ==
    /\ ForwardCount - BackwardCount \in {0, 1}
    /\ \A k \in DOMAIN PassEvents :
          LET e == PassEvents[k]
          IN IF k % 2 = 1
             THEN /\ e[1] = "forward"
                  /\ k = 1 => e[3] = 1
                  /\ k > 1 => \/ /\ e[2] = PassEvents[k - 1][2]
                                 /\ e[3] = PassEvents[k - 1][3] + 1
                              \/ /\ e[2] = PassEvents[k - 1][2] + 1
                                 /\ e[3] = 1
             ELSE e = <<"backward", PassEvents[k - 1][2], PassEvents[k - 1][3]>>
    /\ pc = "ts_done" =>
          Cardinality({k \in DOMAIN PassEvents :
                          /\ PassEvents[k][1] = "backward"
                          /\ PassEvents[k][2] = hist.calls}) = Len(ts.inputs)

C17_Witness ==
    /\ pc = "ts_done"
    /\ Len(ts.inputs) = 3
    /\ PassEvents = << <<"forward", 1, 1>>, <<"backward", 1, 1>>,
                       <<"forward", 1, 2>>, <<"backward", 1, 2>>,
                       <<"forward", 1, 3>>, <<"backward", 1, 3>> >>

(* C18: the time value of each console summary is the time elapsed since   *)
(* the previous logging boundary, or since the epoch started for the first *)
(* summary, so it spans all steps of the interval.                         *)
C18_TimeSpansInterval ==
    \A k \in DOMAIN hist.console :
        hist.console[k].time = hist.console[k].since_boundary

(* C15: with restore reinstating the saved state unchanged, a run resumed  *)
(* from the checkpoint written at epoch e starts epoch e+1 with the same   *)
(* scheduler state as the uninterrupted run has at the start of epoch e+1. *)
C15_ResumedSchedulerMatches ==
    /\ args.continue_training
    /\ ~hist.prev.given
    /\ pc = "loop"
    /\ hist.epochsRun = <<>>
    /\ tr.epoch = hist.prev.epoch
    => net.sched = hist.prev.sched

(* C19: a fresh run without a given checkpoint that completes its first    *)
(* epoch has written a checkpoint for epoch 0 whatever the cadence, so a   *)
(* later continuation of such a run does not fail for lack of a checkpoint.*)
C19_FirstEpochCheckpointed ==
    /\ /\ ~args.continue_training
       /\ args.checkpoint = NoCheckpoint
       /\ tr.epoch >= 1 \/ pc = "scheduler_step"
       => \E c \in ckptDir : c.epoch = 0
    /\ /\ args.continue_training
       /\ ~hist.prev.given
       /\ hist.prev.epoch >= 1
       => /\ pc # "failed"
          /\ \E c \in ckptDir : c.epoch = 0
          /\ pc \in {"lr_scheduler", "restore", "loop"} => args.checkpoint # NoCheckpoint

C19_Witness ==
    /\ args.continue_training
    /\ ~hist.prev.given
    /\ hist.prev.epoch = 2
    /\ args.save_model_frequency = 2
    /\ pc = "lr_scheduler"
    /\ args.checkpoint.epoch = 0

====
